---- MODULE Spec2Model ----
(***************************************************************************)
(* NodeDomain (src/lib/NodeDomain.js): the proxy of one remote domain over *)
(* a reconnecting NodeConnection.  One action is one turn of the           *)
(* JavaScript event loop: a handler together with the promise callbacks    *)
(* its settlements schedule, which run before any other event is           *)
(* delivered.  NodeConnection.js is not part of the sources at hand; the   *)
(* connection is modelled from its contract in spec.md (sections 2, 3, 6). *)
(***************************************************************************)
EXTENDS Integers, Sequences, FiniteSets, TLC

\* ------------------------------------------------------------- bounds
\* Connection attempts: the constructor's connect and one per close event.
MaxGen == 2
\* exec calls made by the caller.
MaxCalls == 1
\* Consecutive caller-initiated refreshInterface calls that are counted.
MaxRefresh == 3

\* ---------------------------------------------------------- parameters
\* new NodeDomain(domainName, domainPath)
domainName == "dom"
\* The commands and events the definition at domainPath registers remotely.
DomainCommands == {"ping"}
DomainEventNames == {"changed", "added"}
\* The events among them that exist once the definition is loaded; the
\* others are registered later, by commands.
LoadedEvents == {"changed"}
\* What callers pass to exec.
CommandNames == {"ping", "nope"}
ArgLists == {<<>>, <<1, 2>>}
\* Payloads of the connection's events.
Payloads == {<<7>>, <<1, 2>>}
\* What an applied command does: returns a pending promise, returns a
\* rejected promise, or throws.
CommandOutcomes == {"pending", "err", "threw"}

VARIABLES
    connected,          \* connection.connected()
    domains,            \* connection.domains: domain name -> command names
    domainEvents,       \* connection.domainEvents: domain name -> event names
    listeners,          \* the connection's listeners: event key -> sequence
    domainLoaded,       \* this._domainLoaded
    connectionPromise,  \* this._connectionPromise: 0 is null, g is the
                        \* promise chained on attempt g
    attempts,           \* connect / reconnect promises and their load steps
    calls,              \* the exec calls made so far
    last                \* what the last step handed to its caller: the
                        \* promise of promise(), the outcome of a caller's
                        \* refreshInterface(), the emissions of an event

vars == <<connected, domains, domainEvents, listeners, domainLoaded,
          connectionPromise, attempts, calls, last>>

\* ------------------------------------------------------------- helpers
NoTable == <<>>

Op(op) == [op |-> op, gen |-> 0, key |-> "", args |-> <<>>,
           emitted |-> <<>>, result |-> "", n |-> 0]

\* this._domainName + ":" + domainEvent
connectionEvent(domainEvent) == domainName \o ":" \o domainEvent

\* Keys other users of the connection listen under: an event of a domain
\* whose name begins with domainName, and an event of an unrelated one.
OtherKeys == {"domx:tick", "net:tick"}

ConnectionKeys ==
    {connectionEvent(e) : e \in DomainEventNames} \cup {"close"} \cup OtherKeys

\* The listener refreshInterface installs: it closes over domainEvent.
Relay(domainEvent) == [kind |-> "relay", event |-> domainEvent]
\* The listener the constructor installs on "close".
CloseListener == [kind |-> "close", event |-> ""]
\* A listener of another user of the connection.
OtherListener(key) == [kind |-> "other", event |-> key]

\* new RegExp("^" + this._domainName + ":*"): the key starts with the
\* domain name, followed by zero or more colons.
domainPrefix(key) ==
    /\ Len(key) >= Len(domainName)
    /\ SubSeq(key, 1, Len(domainName)) = domainName

\* connection.off(domainPrefix): every listener under a matching key goes.
off(ls) == [k \in DOMAIN ls |-> IF domainPrefix(k) THEN <<>> ELSE ls[k]]

\* this._domainLoaded && this.connection.connected()
ready == domainLoaded /\ connected

\* The promise connect(true).then(this._load), or promise.then(this._load)
\* of a close: rejected when the connection promise is, fulfilled when the
\* load step has ended either way (its catch handler returns normally).
FState(a) ==
    IF a.conn = "failed" THEN "rejected"
    ELSE IF a.load \in {"ok", "failed", "threw"} THEN "fulfilled"
    ELSE "pending"

\* ------------------------------------------------------ refreshInterface
\* installRelay with the test inverted: a relay is added only where a
\* listener already is.
installRelayInverted(ls, domainEvent) ==
    IF Len(ls) # 0 THEN Append(ls, Relay(domainEvent)) ELSE ls

\* The forEach body without the getListeners test.
installRelayUnguarded(ls, domainEvent) == Append(ls, Relay(domainEvent))

\* The body of eventNames.forEach for one event, on the listeners under
\* its key: install a relay when getListeners(connectionEvent) is empty.
installRelay(ls, domainEvent) ==
    IF Len(ls) = 0 THEN Append(ls, Relay(domainEvent)) ELSE ls

\* refreshInterface without the getListeners test: every call adds a
\* relay for every advertised event.
refreshInterfaceAlways(ls, eventNames) ==
    [k \in DOMAIN ls |->
        IF \E e \in eventNames : connectionEvent(e) = k
        THEN Append(ls[k], Relay(CHOOSE e \in eventNames : connectionEvent(e) = k))
        ELSE ls[k]]

\* refreshInterface over the advertised event names: each event has its
\* own key, so the order of the forEach does not matter.
refreshInterface(ls, eventNames) ==
    [k \in DOMAIN ls |->
        IF \E e \in eventNames : connectionEvent(e) = k
        THEN installRelay(ls[k], CHOOSE e \in eventNames : connectionEvent(e) = k)
        ELSE ls[k]]

\* A relay that re-emits under the connection's key, prefix and all.
emitEventPrefixed(l, params) ==
    [name |-> connectionEvent(l.event), args |-> params]

\* The relay's body: this.emitEvent(domainEvent, params), with params the
\* listener's own arguments.
emitEvent(l, params) == [name |-> l.event, args |-> params]

\* ------------------------------------------------------------------ exec
NewCall(name, args) ==
    [name |-> name, args |-> args, path |-> "rejected", gen |-> 0,
     fAtCall |-> "none", disp |-> "none", applied |-> <<>>, cmd |-> "none"]

\* execConnected without the test of fn: whatever the lookup gave is
\* applied, and applying undefined throws.
execConnectedUnchecked(c, doms, out) ==
    IF domainName \in DOMAIN doms /\ c.name \in doms[domainName]
    THEN [c EXCEPT !.disp = "invoked", !.applied = <<c.args>>, !.cmd = out]
    ELSE [c EXCEPT !.disp = "invoked", !.cmd = "threw"]

\* execConnected: look the command up in the live table and apply it to
\* params, or return Promise.reject().  out is what the command does.
execConnected(c, doms, out) ==
    IF domainName \in DOMAIN doms /\ c.name \in doms[domainName]
    THEN [c EXCEPT !.disp = "invoked", !.applied = <<c.args>>, !.cmd = out]
    ELSE [c EXCEPT !.disp = "nofn"]

\* this._connectionPromise.then(execConnected) for a promise in state f:
\* the callback waits for a pending promise, runs on a fulfilled one and
\* is skipped on a rejected one.
thenExecConnected(c, f, doms, out) ==
    CASE f = "pending"   -> [c EXCEPT !.disp = "waiting"]
      [] f = "fulfilled" -> execConnected(c, doms, out)
      [] f = "rejected"  -> [c EXCEPT !.disp = "skipped"]

\* exec that does not wait: with a promise outstanding it looks the command
\* up at once instead of chaining execConnected on the promise.
execNoWait(name, args, out) ==
    IF ready
    THEN execConnected([NewCall(name, args) EXCEPT !.path = "immediate"],
                       domains, out)
    ELSE IF connectionPromise # 0
    THEN execConnected(
             [NewCall(name, args) EXCEPT
                 !.path = "deferred", !.gen = connectionPromise,
                 !.fAtCall = FState(attempts[connectionPromise])],
             domains, out)
    ELSE NewCall(name, args)

\* exec(name, ...params): the three branches on ready() and
\* this._connectionPromise.
exec(name, args, out) ==
    IF ready
    THEN execConnected([NewCall(name, args) EXCEPT !.path = "immediate"],
                       domains, out)
    ELSE IF connectionPromise # 0
    THEN LET f == FState(attempts[connectionPromise])
         IN thenExecConnected(
                [NewCall(name, args) EXCEPT !.path = "deferred",
                                            !.gen = connectionPromise,
                                            !.fAtCall = f],
                f, domains, out)
    ELSE NewCall(name, args)

\* What exec hands back for call c: the command's own promise on the
\* immediate path (an exception of the command leaves exec as an
\* exception), the promise of then(execConnected) on the deferred path (an
\* exception in the callback rejects it), Promise.reject() otherwise.
ReturnedFuture(c) ==
    CASE c.path = "rejected" -> "rejected"
      [] c.disp = "waiting"  -> "pending"
      [] c.disp \in {"nofn", "skipped"} -> "rejected"
      [] c.cmd = "pending"   -> "pending"
      [] c.cmd = "ok"        -> "fulfilled"
      [] c.cmd = "err"       -> "rejected"
      [] c.cmd = "threw"     ->
            IF c.path = "immediate" THEN "thrown" ELSE "rejected"

\* Call c is a then(execConnected) callback still registered on attempt g.
Waiting(c, g) == c.path = "deferred" /\ c.gen = g /\ c.disp = "waiting"

\* The callbacks then(execConnected) registered on attempt g's promise,
\* run in registration order once it has settled in state f.
runCallbacks(cs, g, f, doms, outs) ==
    [i \in DOMAIN cs |->
        IF Waiting(cs[i], g)
        THEN thenExecConnected(cs[i], f, doms, outs[i])
        ELSE cs[i]]

\* --------------------------------------------------------------- promise
\* promise() that does not ask ready(): with no promise outstanding it
\* returns Promise.resolve().
promiseResolved ==
    IF connectionPromise # 0
    THEN [kind |-> "attempt", gen |-> connectionPromise]
    ELSE [kind |-> "resolved", gen |-> 0]

\* promise(): this._connectionPromise when there is one, else a promise
\* already resolved or already rejected by ready().
promise ==
    IF connectionPromise # 0
    THEN [kind |-> "attempt", gen |-> connectionPromise]
    ELSE IF ready THEN [kind |-> "resolved", gen |-> 0]
    ELSE [kind |-> "rejected", gen |-> 0]

\* ------------------------------------------------------------------ Init
\* The state when the constructor returns: connect(true) is outstanding,
\* its promise chained with _load is this._connectionPromise, and the close
\* listener is installed.
Init ==
    /\ connected = FALSE
    /\ domains = NoTable
    /\ domainEvents = NoTable
    /\ listeners = [k \in ConnectionKeys |->
                        IF k = "close" THEN <<CloseListener>> ELSE <<>>]
    /\ domainLoaded = FALSE
    /\ connectionPromise = 1
    /\ attempts = <<[conn |-> "pending", load |-> "none",
                     readyAt |-> "unsettled"]>>
    /\ calls = <<>>
    /\ last = Op("step")

ReadyAt(loaded, conn) == IF loaded /\ conn THEN "ready" ELSE "notready"

NewAttempt == [conn |-> "pending", load |-> "none", readyAt |-> "unsettled"]

\* What each exec waiting on attempt g's promise will find its command
\* doing; the entries of the other calls are not used.
Outs(g) ==
    {outs \in [1..MaxCalls -> CommandOutcomes] :
        \A i \in 1..MaxCalls :
            (i \notin DOMAIN calls \/ ~Waiting(calls[i], g))
                => outs[i] = "pending"}

\* --------------------------------------------------------- the connection
\* connect(true), or the reconnection promise of a close, resolves: the
\* link is open, and the chained _load calls loadDomains(domainPath, true).
\* A connect step that also calls _load again for an attempt whose load
\* has failed.
ConnectResolveRetry(g) ==
    /\ g \in DOMAIN attempts
    /\ attempts[g].conn = "pending" \/ attempts[g].load = "failed"
    /\ connected' = TRUE
    /\ attempts' = [attempts EXCEPT ![g].conn = "ok", ![g].load = "inflight"]
    /\ last' = Op("step")
    /\ UNCHANGED <<domains, domainEvents, listeners, domainLoaded,
                   connectionPromise, calls>>

ConnectResolve(g) ==
    /\ g \in DOMAIN attempts
    /\ attempts[g].conn = "pending"
    /\ connected' = TRUE
    /\ attempts' = [attempts EXCEPT ![g].conn = "ok", ![g].load = "inflight"]
    /\ last' = Op("step")
    /\ UNCHANGED <<domains, domainEvents, listeners, domainLoaded,
                   connectionPromise, calls>>

\* The connection promise is rejected: _load is never called, the chained
\* promise is rejected and so is every exec waiting on it.
ConnectReject(g) ==
    /\ g \in DOMAIN attempts
    /\ attempts[g].conn = "pending"
    /\ attempts' = [attempts EXCEPT ![g].conn = "failed"]
    /\ \E outs \in Outs(g) :
          calls' = runCallbacks(calls, g, "rejected", domains, outs)
    /\ last' = Op("step")
    /\ UNCHANGED <<connected, domains, domainEvents, listeners, domainLoaded,
                   connectionPromise>>

\* loadDomains resolves.  The connection's tables now hold what the
\* definition registered (registers: whether it registered domainName at
\* all).  _load's success handler sets _domainLoaded, clears
\* _connectionPromise and calls refreshInterface, which throws when
\* domainEvents has no entry for the domain; the catch handler logs that.
\* Then the chained promise is fulfilled and the waiting execs run.
LoadResolve(g, registers, outs) ==
    /\ g \in DOMAIN attempts
    /\ attempts[g].load = "inflight"
    /\ LET doms   == IF registers THEN (domainName :> DomainCommands)
                     ELSE domains
           devs   == IF registers THEN (domainName :> LoadedEvents)
                     ELSE domainEvents
           throws == domainName \notin DOMAIN devs
           res    == IF throws THEN "threw" ELSE "ok"
       IN  /\ domains' = doms
           /\ domainEvents' = devs
           /\ domainLoaded' = TRUE
           /\ connectionPromise' = 0
           /\ listeners' = IF throws THEN listeners
                           ELSE refreshInterface(listeners, devs[domainName])
           /\ attempts' = [attempts EXCEPT
                              ![g].load = res,
                              ![g].readyAt = ReadyAt(TRUE, connected)]
           /\ calls' = runCallbacks(calls, g, "fulfilled", doms, outs)
           /\ last' = Op("step")
    /\ UNCHANGED <<connected>>

\* loadDomains is rejected: the catch handler logs the error and returns,
\* so the chained promise is fulfilled and the waiting execs run.
LoadReject(g, outs) ==
    /\ g \in DOMAIN attempts
    /\ attempts[g].load = "inflight"
    /\ attempts' = [attempts EXCEPT
                       ![g].load = "failed",
                       ![g].readyAt = ReadyAt(domainLoaded, connected)]
    /\ calls' = runCallbacks(calls, g, "fulfilled", domains, outs)
    /\ last' = Op("step")
    /\ UNCHANGED <<connected, domains, domainEvents, listeners, domainLoaded,
                   connectionPromise>>

\* The close listener without its reset of _domainLoaded.
CloseKeepsLoaded(clears) ==
    /\ connected
    /\ Len(attempts) < MaxGen
    /\ connected' = FALSE
    /\ domains' = IF clears THEN NoTable ELSE domains
    /\ domainEvents' = IF clears THEN NoTable ELSE domainEvents
    /\ listeners' = off(listeners)
    /\ domainLoaded' = domainLoaded
    /\ connectionPromise' = Len(attempts) + 1
    /\ attempts' = Append(attempts, NewAttempt)
    /\ last' = Op("step")
    /\ UNCHANGED <<calls>>

\* The close listener without its connection.off(domainPrefix) call.
CloseKeepsListeners(clears) ==
    /\ connected
    /\ Len(attempts) < MaxGen
    /\ connected' = FALSE
    /\ domains' = IF clears THEN NoTable ELSE domains
    /\ domainEvents' = IF clears THEN NoTable ELSE domainEvents
    /\ listeners' = listeners
    /\ domainLoaded' = FALSE
    /\ connectionPromise' = Len(attempts) + 1
    /\ attempts' = Append(attempts, NewAttempt)
    /\ last' = Op("step")
    /\ UNCHANGED <<calls>>

\* The open link drops.  The connection starts reconnecting and emits
\* "close" with the reconnection promise; whether it forgets its tables is
\* its own business (clears).  The constructor's close listener removes
\* the domain's listeners, resets _domainLoaded and chains _load on the
\* reconnection promise.
Close(clears) ==
    /\ connected
    /\ Len(attempts) < MaxGen
    /\ connected' = FALSE
    /\ domains' = IF clears THEN NoTable ELSE domains
    /\ domainEvents' = IF clears THEN NoTable ELSE domainEvents
    /\ listeners' = off(listeners)
    /\ domainLoaded' = FALSE
    /\ connectionPromise' = Len(attempts) + 1
    /\ attempts' = Append(attempts, NewAttempt)
    /\ last' = Op("step")
    /\ UNCHANGED <<calls>>

\* The remote side registers one more event type for the domain.
RegisterEvent(e) ==
    /\ connected
    /\ domainName \in DOMAIN domainEvents
    /\ e \notin domainEvents[domainName]
    /\ domainEvents' = [domainEvents EXCEPT ![domainName] = @ \cup {e}]
    /\ last' = Op("step")
    /\ UNCHANGED <<connected, domains, listeners, domainLoaded,
                   connectionPromise, attempts, calls>>

\* Another user of the proxy's connection subscribes under one of its own
\* keys: connection.on(key, handler).
On(key) ==
    /\ listeners[key] = <<>>
    /\ listeners' = [listeners EXCEPT ![key] = <<OtherListener(key)>>]
    /\ last' = Op("step")
    /\ UNCHANGED <<connected, domains, domainEvents, domainLoaded,
                   connectionPromise, attempts, calls>>

\* The connection emits domainName:e with params: each listener under the
\* key is called with them, in order.
Fire(e, params) ==
    /\ connected
    /\ LET k == connectionEvent(e)
       IN last' = [Op("fire") EXCEPT
                      !.key = k, !.args = params,
                      !.emitted = [i \in 1..Len(listeners[k]) |->
                                      emitEvent(listeners[k][i], params)]]
    /\ UNCHANGED <<connected, domains, domainEvents, listeners, domainLoaded,
                   connectionPromise, attempts, calls>>

\* The promise of an applied command settles.
CommandSettle(i, ok) ==
    /\ i \in DOMAIN calls
    /\ calls[i].cmd = "pending"
    /\ calls' = [calls EXCEPT ![i].cmd = IF ok THEN "ok" ELSE "err"]
    /\ last' = Op("step")
    /\ UNCHANGED <<connected, domains, domainEvents, listeners, domainLoaded,
                   connectionPromise, attempts>>

\* --------------------------------------------------------------- callers
Exec(name, args, out) ==
    /\ Len(calls) < MaxCalls
    /\ calls' = Append(calls, exec(name, args, out))
    /\ last' = Op("step")
    /\ UNCHANGED <<connected, domains, domainEvents, listeners, domainLoaded,
                   connectionPromise, attempts>>

\* promise() that forgets a promise it finds settled.
PromiseForgets ==
    /\ last' = [Op("promise") EXCEPT !.result = promise.kind,
                                     !.gen = promise.gen]
    /\ connectionPromise' = IF promise.kind = "pending"
                            THEN connectionPromise ELSE 0
    /\ UNCHANGED <<connected, domains, domainEvents, listeners, domainLoaded,
                   attempts, calls>>

Promise ==
    /\ last' = [Op("promise") EXCEPT !.result = promise.kind,
                                     !.gen = promise.gen]
    /\ UNCHANGED <<connected, domains, domainEvents, listeners, domainLoaded,
                   connectionPromise, attempts, calls>>

\* A caller's refreshInterface(); last.n counts the calls in a row.
RefreshInterface ==
    LET n == IF last.op = "refresh" THEN last.n + 1 ELSE 1
    IN  /\ n <= MaxRefresh
        /\ IF domainName \in DOMAIN domainEvents
           THEN /\ listeners' = refreshInterface(listeners,
                                                 domainEvents[domainName])
                /\ last' = [Op("refresh") EXCEPT !.result = "ok", !.n = n]
           ELSE /\ listeners' = listeners
                /\ last' = [Op("refresh") EXCEPT !.result = "threw", !.n = n]
        /\ UNCHANGED <<connected, domains, domainEvents, domainLoaded,
                       connectionPromise, attempts, calls>>

\* The connection's own steps.
Lifecycle ==
    \/ \E g \in 1..MaxGen : ConnectResolve(g)
    \/ \E g \in 1..MaxGen : ConnectReject(g)
    \/ \E g \in 1..MaxGen : \E outs \in Outs(g) :
          \E registers \in BOOLEAN : LoadResolve(g, registers, outs)
    \/ \E g \in 1..MaxGen : \E outs \in Outs(g) : LoadReject(g, outs)
    \/ \E clears \in BOOLEAN : Close(clears)

\* A caller that uses exec and promise.
Next ==
    \/ Lifecycle
    \/ \E i \in 1..MaxCalls, ok \in BOOLEAN : CommandSettle(i, ok)
    \/ \E name \in CommandNames, args \in ArgLists, out \in CommandOutcomes :
          Exec(name, args, out)
    \/ Promise

Spec == Init /\ [][Next]_vars

\* The same caller on a connection that lets no load succeed once the
\* link it was sent over has closed: only the latest attempt's load
\* resolves, an older one can only be rejected.
LifecycleOrderly ==
    \/ \E g \in 1..MaxGen : ConnectResolve(g)
    \/ \E g \in 1..MaxGen : ConnectReject(g)
    \/ \E outs \in Outs(Len(attempts)), registers \in BOOLEAN :
          LoadResolve(Len(attempts), registers, outs)
    \/ \E g \in 1..MaxGen : \E outs \in Outs(g) : LoadReject(g, outs)
    \/ \E clears \in BOOLEAN : Close(clears)

NextOrderly ==
    \/ LifecycleOrderly
    \/ \E i \in 1..MaxCalls, ok \in BOOLEAN : CommandSettle(i, ok)
    \/ \E name \in CommandNames, args \in ArgLists, out \in CommandOutcomes :
          Exec(name, args, out)
    \/ Promise

OrderlySpec == Init /\ [][NextOrderly]_vars

\* A caller that listens to the domain's events and refreshes the
\* interface.
NextRelay ==
    \/ Lifecycle
    \/ \E e \in DomainEventNames : RegisterEvent(e)
    \/ \E key \in OtherKeys : On(key)
    \/ \E e \in DomainEventNames, params \in Payloads : Fire(e, params)
    \/ RefreshInterface

RelaySpec == Init /\ [][NextRelay]_vars

\* A caller that uses every method of the proxy, its commands taking no
\* arguments.
NextCaller ==
    \/ Lifecycle
    \/ \E name \in CommandNames, out \in CommandOutcomes :
          Exec(name, <<>>, out)
    \/ Promise
    \/ RefreshInterface

CallerSpec == Init /\ [][NextCaller]_vars

\* ================================================================ claims
Range(q) == {q[i] : i \in DOMAIN q}

\* The command table has an entry for name.
HasCommand(doms, name) == domainName \in DOMAIN doms /\ name \in doms[domainName]

\* Step predicates, read off the attempts and the calls.
IsClose == Len(attempts') = Len(attempts) + 1
IsExec == Len(calls') = Len(calls) + 1
NewlyApplied(i) ==
    /\ calls'[i].disp = "invoked"
    /\ (i \in DOMAIN calls => calls[i].disp # "invoked")

\* C1: an exec made while ready() is false and a pending promise F is
\* present stays unapplied, and the promise it returned stays pending, for
\* as long as F is pending; in the step in which F is fulfilled the command
\* is looked up in the table as it is then, and is applied to the call's
\* own arguments exactly when that table has it.
C1_DeferredExecOrdering ==
    [][ /\ \A i \in DOMAIN calls' :
              (/\ calls'[i].path = "deferred"
               /\ FState(attempts'[calls'[i].gen]) = "pending")
              => /\ calls'[i].disp = "waiting"
                 /\ calls'[i].applied = <<>>
                 /\ ReturnedFuture(calls'[i]) = "pending"
        /\ \A i \in DOMAIN calls :
              (/\ calls[i].disp = "waiting"
               /\ FState(attempts'[calls[i].gen]) = "fulfilled")
              => /\ calls'[i].name = calls[i].name
                 /\ calls'[i].args = calls[i].args
                 /\ IF HasCommand(domains', calls[i].name)
                    THEN /\ calls'[i].disp = "invoked"
                         /\ calls'[i].applied = <<calls[i].args>>
                    ELSE /\ calls'[i].disp = "nofn"
                         /\ calls'[i].applied = <<>>
      ]_vars

\* C1's case: exec("ping", 1, 2) made on the constructor's attempt while
\* its promise was pending (the table had no entry yet) has been applied
\* to <<1, 2>>.
C1_Witness ==
    \E i \in DOMAIN calls :
        /\ calls[i].path = "deferred"
        /\ calls[i].gen = 1
        /\ calls[i].fAtCall = "pending"
        /\ calls[i].args = <<1, 2>>
        /\ calls[i].disp = "invoked"
        /\ calls[i].applied = <<<<1, 2>>>>

\* C2: whenever exec applies a command, on either path, ready() is true
\* at that moment.
C2_AppliedOnlyWhenReady ==
    [][ \A i \in DOMAIN calls' : NewlyApplied(i) => ready' ]_vars

\* C3: a promise returned by promise() is fulfilled only in a state where
\* ready() is true: one returned already fulfilled was fulfilled so, and
\* one returned pending is not fulfilled by a step that leaves the proxy
\* not ready (a failed load).
C3_PromiseFulfilledOnlyWhenReady ==
    [][ /\ (/\ last'.op = "promise"
            /\ last'.result = "attempt"
            /\ FState(attempts'[last'.gen]) = "fulfilled")
           => attempts'[last'.gen].readyAt = "ready"
        /\ (/\ last.op = "promise"
            /\ last.result = "attempt"
            /\ FState(attempts[last.gen]) = "pending"
            /\ FState(attempts'[last.gen]) = "fulfilled")
           => ready'
      ]_vars

\* C4: an exec of a command of the domain, made while an attempt was
\* pending, is applied once the connection is open and the domain loaded.
\* A call that was given up (its promise rejected without applying the
\* command) is never applied later, so a state in which the proxy is ready
\* and such a call was given up is one the claim excludes.
C4_DeferredExecEventuallyApplied ==
    \A i \in DOMAIN calls :
        (/\ calls[i].path = "deferred"
         /\ calls[i].fAtCall = "pending"
         /\ calls[i].name \in DomainCommands
         /\ ready
         /\ HasCommand(domains, calls[i].name))
        => calls[i].disp \notin {"nofn", "skipped"}

\* C5: ready() goes from true to false only in a close step, and after a
\* close it is true only once the load step chained on that close's
\* reconnection promise has succeeded.
C5_ReadinessMonotonic ==
    [][ /\ (ready /\ ~ready') => IsClose
        /\ (ready' /\ Len(attempts') > 1)
              => attempts'[Len(attempts')].load = "ok"
      ]_vars

\* Exactly one listener, the relay of e, is under e's key.
OneRelay(ls, e) == ls[connectionEvent(e)] = <<Relay(e)>>

\* C6: when a load step chained on a close's reconnection promise
\* succeeds, _domainLoaded is true, _connectionPromise is null, ready() is
\* true as soon as the link is open (it is whenever no later close has
\* come), and every advertised event has exactly one relay.
C6_RecoveryAfterClose ==
    [][ \A g \in DOMAIN attempts :
          (g > 1 /\ attempts[g].load = "inflight" /\ attempts'[g].load = "ok")
          => /\ domainLoaded'
             /\ connectionPromise' = 0
             /\ (connected' => ready')
             /\ (g = Len(attempts') => ready')
             /\ domainName \in DOMAIN domainEvents'
             /\ \A e \in domainEvents'[domainName] : OneRelay(listeners', e)
      ]_vars

\* C6's case: the proxy was ready, the link closed, and the reload on the
\* reconnection has succeeded with two events advertised.
C6_Witness ==
    /\ Len(attempts) = 2
    /\ attempts[1].load = "ok"
    /\ attempts[2].load = "ok"
    /\ ready
    /\ connectionPromise = 0
    /\ domainEvents[domainName] = DomainEventNames
    /\ \A e \in DomainEventNames : OneRelay(listeners, e)

\* C7: after any number of refreshInterface() calls in a row every
\* advertised event has exactly one relay, and from the second call on the
\* listeners are left as they were.
C7_RefreshIdempotent ==
    [][ (last'.op = "refresh" /\ last'.result = "ok")
        => /\ \A e \in domainEvents'[domainName] : OneRelay(listeners', e)
           /\ (last.op = "refresh" => listeners' = listeners)
      ]_vars

\* C7's case: MaxRefresh calls in a row with both events advertised.
C7_Witness ==
    /\ last.op = "refresh"
    /\ last.result = "ok"
    /\ last.n = MaxRefresh
    /\ domainEvents[domainName] = DomainEventNames
    /\ \A e \in DomainEventNames : OneRelay(listeners, e)

\* C8: with a relay installed for event e, the connection's event
\* domainName:e with params makes exactly one local emission: of e, with
\* the same params.
C8_RelayFidelity ==
    last.op = "fire"
    => \A e \in DomainEventNames :
          (/\ last.key = connectionEvent(e)
           /\ Relay(e) \in Range(listeners[last.key]))
          => last.emitted = <<[name |-> e, args |-> last.args]>>

\* C8's case: dom:changed fired with <<1, 2>> and relayed.
C8_Witness ==
    /\ last.op = "fire"
    /\ last.key = connectionEvent("changed")
    /\ last.args = <<1, 2>>
    /\ last.emitted = <<[name |-> "changed", args |-> <<1, 2>>]>>

\* C9: exec always returns a promise: no exception of a command leaves
\* exec as an exception.
C9_ExecNeverThrows ==
    \A i \in DOMAIN calls : ReturnedFuture(calls[i]) # "thrown"

Dispatched(i) ==
    IF i \in DOMAIN calls
    THEN /\ calls[i].disp = "waiting"
         /\ FState(attempts'[calls[i].gen]) = "fulfilled"
    ELSE /\ IsExec
         /\ i = Len(calls')
         /\ \/ ready
            \/ /\ connectionPromise # 0
               /\ FState(attempts[connectionPromise]) = "fulfilled"

\* C11: an exec dispatched when the table has no entry for its name, or
\* the connection no table for the domain, applies nothing and returns a
\* rejected promise; it does not throw.
C11_UnknownCommandRejected ==
    [][ \A i \in DOMAIN calls' :
          (Dispatched(i) /\ ~HasCommand(domains', calls'[i].name))
          => /\ calls'[i].disp = "nofn"
             /\ calls'[i].applied = <<>>
             /\ calls'[i].cmd = "none"
             /\ ReturnedFuture(calls'[i]) = "rejected"
      ]_vars

\* C11's case: exec("nope") on a ready proxy whose table has "ping" only.
C11_Witness ==
    /\ ready
    /\ HasCommand(domains, "ping")
    /\ \E i \in DOMAIN calls :
          /\ calls[i].name = "nope"
          /\ calls[i].path = "immediate"
          /\ calls[i].disp = "nofn"
          /\ ReturnedFuture(calls[i]) = "rejected"

\* The current connect-or-reload sequence has not finished: the latest
\* attempt is still connecting or its load is in flight.
Outstanding ==
    LET a == attempts[Len(attempts)]
    IN  a.conn = "pending" \/ a.load = "inflight"

\* C12: _connectionPromise is set exactly while a connect-or-reload
\* sequence is outstanding; it is null once a load has failed.  (A
\* rejected connect, which the claim does not speak of, is left aside.)
C12_PendingIffOutstanding ==
    attempts[Len(attempts)].conn # "failed"
        => ((connectionPromise # 0) <=> Outstanding)

\* C13: right after a close _domainLoaded and ready() are false,
\* _connectionPromise is the load step chained on the reconnection promise,
\* still pending, and the connection has no listener under a key that
\* starts with domainName ":"; so no relay installed before the close
\* outlives it.
C13_CloseHandlerComplete ==
    [][ IsClose =>
          /\ ~domainLoaded'
          /\ ~ready'
          /\ connectionPromise' = Len(attempts')
          /\ attempts'[Len(attempts')] = NewAttempt
          /\ FState(attempts'[connectionPromise']) = "pending"
          /\ \A e \in DomainEventNames : listeners'[connectionEvent(e)] = <<>>
      ]_vars

\* C13's case: a proxy that was loaded, with its relays installed, has
\* just handled a close.
C13_Witness ==
    /\ Len(attempts) = 2
    /\ attempts[1].load = "ok"
    /\ attempts[2] = NewAttempt
    /\ connectionPromise = 2
    /\ ~domainLoaded
    /\ \A e \in DomainEventNames : listeners[connectionEvent(e)] = <<>>

\* The key starts with domainName ":".
InNamespace(key) ==
    LET p == domainName \o ":"
    IN  Len(key) >= Len(p) /\ SubSeq(key, 1, Len(p)) = p

\* C14: the close listener empties exactly the keys that start with
\* domainName ":" and leaves the listeners of every other key as they
\* were, those of a domain whose name merely begins with domainName and
\* the proxy's own close listener included.
C14_CloseRemovesOnlyNamespace ==
    [][ IsClose =>
          \A k \in DOMAIN listeners :
             listeners'[k] = IF InNamespace(k) THEN <<>> ELSE listeners[k]
      ]_vars

\* The relays among the listeners under e's key.
Relays(ls, e) ==
    {i \in DOMAIN ls[connectionEvent(e)] :
        ls[connectionEvent(e)][i].kind = "relay"}

\* C15: in every reachable state each key domainName:e has at most one
\* relay, however load completions, closes and callers' refreshInterface()
\* calls interleave.
C15_AtMostOneRelay ==
    \A e \in DomainEventNames : Cardinality(Relays(listeners, e)) <= 1

\* C15's case: two loads have completed around a close, and a caller has
\* refreshed twice in a row since, with both events advertised.
C15_Witness ==
    /\ Len(attempts) = 2
    /\ attempts[1].load = "ok"
    /\ attempts[2].load = "ok"
    /\ last.op = "refresh"
    /\ last.result = "ok"
    /\ last.n = 2
    /\ \A e \in DomainEventNames : Cardinality(Relays(listeners, e)) = 1

\* _load is called for attempt g in this step.
LoadStarted(g) ==
    /\ attempts'[g].load = "inflight"
    /\ g \in DOMAIN attempts => attempts[g].load # "inflight"

\* C16: _load is called exactly when the initial connect or the
\* reconnection promise of a close resolves: once per attempt, so at most
\* 1 + closes times in all, and never again for an attempt whose load has
\* finished, failed or not.
C16_LoadOncePerAttempt ==
    [][ /\ \A g \in DOMAIN attempts' :
             LoadStarted(g) <=> /\ g \in DOMAIN attempts
                                /\ attempts[g].conn = "pending"
                                /\ attempts'[g].conn = "ok"
                                /\ attempts[g].load = "none"
        /\ \A g \in DOMAIN attempts :
             attempts[g].load \in {"ok", "failed", "threw"}
                => attempts'[g].load = attempts[g].load
        /\ Cardinality({g \in DOMAIN attempts' : attempts'[g].load # "none"})
              <= Len(attempts')
      ]_vars

\* C16's case: the first load failed, the link closed, and the load step
\* of the reconnection is in flight.
C16_Witness ==
    /\ Len(attempts) = 2
    /\ attempts[1].load = "failed"
    /\ attempts[2].conn = "ok"
    /\ attempts[2].load = "inflight"

\* C17: when the load step of the current attempt ends in its failure
\* branch, because loadDomains was rejected or because the success
\* handler threw, _domainLoaded is false afterwards and so is ready().
C17_FailedLoadLeavesUnloaded ==
    [][ LET g == Len(attempts)
        IN  (/\ attempts[g].load = "inflight"
             /\ attempts'[g].load \in {"failed", "threw"})
            => ~domainLoaded' /\ ~ready'
      ]_vars

\* C19: a load step that a close has superseded changes nothing of the
\* current attempt when it later succeeds: not _domainLoaded, not the
\* _connectionPromise the close listener stored, not the relays; so
\* ready() does not become true by it.
C19_SupersededLoadInert ==
    [][ \A g \in DOMAIN attempts :
          (/\ g < Len(attempts)
           /\ attempts[g].load = "inflight"
           /\ attempts'[g].load = "ok")
          => /\ domainLoaded' = domainLoaded
             /\ connectionPromise' = connectionPromise
             /\ listeners' = listeners
             /\ ready' = ready
      ]_vars

\* C20: whenever _domainLoaded is true, _connectionPromise is null.
C20_LoadedImpliesNoPending == domainLoaded => connectionPromise = 0

\* C20's case: loaded again after a close, the reload's promise cleared.
C20_Witness ==
    /\ Len(attempts) = 2
    /\ attempts[2].load = "ok"
    /\ domainLoaded
    /\ connectionPromise = 0

\* A waiting exec's continuation runs in this step.
ContinuationRan ==
    \E i \in DOMAIN calls :
       calls[i].disp = "waiting" /\ calls'[i].disp # "waiting"

\* C18: exec(), promise() and a caller's refreshInterface() leave
\* _domainLoaded and _connectionPromise as they were, and promise() the
\* listeners too (ready() is the state function ready, which assigns
\* nothing); a step in which a waiting exec's continuation runs changes
\* the two fields only as the load step it follows does.
C18_CallerOpsFrame ==
    [][ /\ ContinuationRan
           => \/ /\ domainLoaded' = domainLoaded
                 /\ connectionPromise' = connectionPromise
              \/ /\ \E g \in DOMAIN attempts :
                       /\ attempts[g].load = "inflight"
                       /\ attempts'[g].load \in {"ok", "threw"}
                 /\ domainLoaded'
                 /\ connectionPromise' = 0
        /\ (IsExec \/ last'.op \in {"promise", "refresh"})
           => /\ domainLoaded' = domainLoaded
              /\ connectionPromise' = connectionPromise
        /\ last'.op = "promise" => listeners' = listeners
        /\ (IsExec \/ last'.op = "promise")
           => /\ ready' = ready
              /\ attempts' = attempts
      ]_vars

\* C18's case: exec was deferred while a promise was pending, and the
\* caller has since called refreshInterface() and promise().
C18_Witness ==
    /\ last.op = "promise"
    /\ connectionPromise # 0
    /\ \E i \in DOMAIN calls : calls[i].path = "deferred"
    /\ \E e \in DomainEventNames : OneRelay(listeners, e)

====
